---- MODULE Spec2Model ----
(***************************************************************************)
(* A model of io-lifetimes' portability layer (src/portability.rs): the    *)
(* filelike / socketlike vocabulary over the POSIX family (one descriptor  *)
(* space, RawFd) and the Windows family (RawHandle and RawSocket).         *)
(*                                                                         *)
(* The state is the set of bindings that hold a descriptor (typed objects  *)
(* and Owned Resources), the operating system's table of open resources    *)
(* and the close events it has seen.  Each operation of the layer is an    *)
(* operator over a world [objs, open, closes] and one action that applies  *)
(* it.                                                                     *)
(***************************************************************************)
EXTENDS Integers, FiniteSets, Sequences, TLC

VARIABLES
    platform,   \* the family the build selected: "posix" or "windows"
    objs,       \* binding id -> [type, raw, state, ctx, hops]
    open,       \* raw values of the resources the OS holds open
    closes,     \* raw value -> number of close events issued on it
    nextId,     \* the next fresh binding id
    lastOp,     \* the last operation: [op, arg, res, ret, cls]
    rawUsed     \* whether a from_raw_* construction has happened

vars == <<platform, objs, open, closes, nextId, lastOp, rawUsed>>

----------------------------------------------------------------------------
(* Bounds *)

\* Bindings ever created (the initial objects included).
MaxObjs == 6
\* Bindings ever created in a run that uses the raw layer.
MaxRawObjs == 3
\* Typed objects that own a resource in the initial state.
InitObjs == 1
\* Concurrent execution contexts.
NumCtx == 2

Ids == 1..MaxObjs
Ctxs == 1..NumCtx
Families == {"posix", "windows"}

----------------------------------------------------------------------------
(* Platform Resource Model: the cfg-selected aliases *)

\* pub(crate) type RawFilelike = RawFd | RawHandle
RawFilelike(p) == IF p = "posix" THEN "fd" ELSE "handle"

\* pub(crate) type RawSocketlike = RawFd | RawSocket
RawSocketlike(p) == IF p = "posix" THEN "fd" ELSE "socket"

\* a mistaken alias: the filelike owner bound to the socket type on Windows
OwnedFilelikeSwapped(p) == IF p = "posix" THEN "OwnedFd" ELSE "OwnedSocket"

\* pub type OwnedFilelike = OwnedFd | OwnedHandle
OwnedFilelike(p) == IF p = "posix" THEN "OwnedFd" ELSE "OwnedHandle"

\* pub type OwnedSocketlike = OwnedFd | OwnedSocket
OwnedSocketlike(p) == IF p = "posix" THEN "OwnedFd" ELSE "OwnedSocket"

\* The descriptor classes of a family.
Classes(p) == {RawFilelike(p), RawSocketlike(p)}

\* The resource types of a family: two concrete downstream types and the
\* owned wrappers.
Types(p) == {"File", "TcpStream", OwnedFilelike(p), OwnedSocketlike(p)}

\* The descriptor class a type's native capabilities are written against
\* (AsFd/IntoFd/FromFd on POSIX; As/Into/FromHandle or As/Into/FromSocket on
\* Windows).
NativeClass(p, T) ==
    IF p = "posix" THEN "fd"
    ELSE IF T \in {"File", "OwnedHandle"} THEN "handle" ELSE "socket"

\* The owned wrapper of a descriptor class: OwnedFd, OwnedHandle, OwnedSocket.
OwnedOf(cls) ==
    CASE cls = "fd" -> "OwnedFd"
      [] cls = "handle" -> "OwnedHandle"
      [] cls = "socket" -> "OwnedSocket"

\* Raw numbers: the sentinel -1 and the numbers of the initial resources.
RawNs == {-1} \cup (3..(InitObjs + 2))
AllClasses == {"fd", "handle", "socket"}
AllRaw == [cls : AllClasses, n : RawNs]
NoRaw == [cls |-> "none", n |-> 0]

\* The operations of the layer that each family's build defines.
SafeOps == {"as_filelike", "as_socketlike", "into_filelike", "into_socketlike",
            "from_filelike", "from_socketlike",
            "from_into_filelike", "from_into_socketlike"}
RawOps == {"as_raw_filelike", "as_raw_socketlike",
           "into_raw_filelike", "into_raw_socketlike",
           "from_raw_filelike", "from_raw_socketlike"}
DefinedOps(p) ==
    IF p = "posix"
    THEN SafeOps \cup (RawOps \ {"into_raw_socketlike"})
    ELSE SafeOps \cup RawOps

----------------------------------------------------------------------------
(* The native capabilities the layer forwards to (crate::traits and        *)
(* crate::types: AsFd, IntoFd, FromFd, OwnedFd and their Windows            *)
(* counterparts), over a world W = [objs, open, closes].                     *)

World == [objs |-> objs, open |-> open, closes |-> closes]

\* A binding the program may still name: it exists and has not been moved out.
Usable(W, i) == i \in DOMAIN W.objs /\ W.objs[i].state = "Open"

\* The bindings that hold raw value d with close responsibility.
Holders(W, d) == {i \in DOMAIN W.objs : W.objs[i].state = "Open" /\ W.objs[i].raw = d}

\* A by-value use of binding i: the binding is consumed and holds no value.
MovedFrom == [type |-> "moved", raw |-> NoRaw, state |-> "Moved", ctx |-> 0, hops |-> 0]
MoveOut(os, i) == [os EXCEPT ![i] = MovedFrom]

\* A fresh binding j.
Bind(os, j, T, raw, ctx, hops) ==
    (j :> [type |-> T, raw |-> raw, state |-> "Open", ctx |-> ctx, hops |-> hops]) @@ os

\* AsFd::as_fd, AsHandle::as_handle, AsSocket::as_socket: a borrowed view of
\* the descriptor of i, in the accessor's descriptor class.
NativeBorrow(W, i, cls) == [raw |-> [cls |-> cls, n |-> W.objs[i].raw.n], owner |-> i]
as_fd(W, i) == NativeBorrow(W, i, "fd")
as_handle(W, i) == NativeBorrow(W, i, "handle")
as_socket(W, i) == NativeBorrow(W, i, "socket")

\* IntoFd::into_fd, IntoHandle::into_handle, IntoSocket::into_socket: i is
\* consumed and its descriptor is held by the owned wrapper j.
NativeInto(W, i, j, cls) ==
    [W EXCEPT !.objs = Bind(MoveOut(W.objs, i), j, OwnedOf(cls), W.objs[i].raw,
                            W.objs[i].ctx, W.objs[i].hops + 1)]
into_fd(W, i, j) == NativeInto(W, i, j, "fd")
into_handle(W, i, j) == NativeInto(W, i, j, "handle")
into_socket(W, i, j) == NativeInto(W, i, j, "socket")

\* FromFd::from_fd, FromHandle::from_handle, FromSocket::from_socket: the owned
\* wrapper i is consumed and its descriptor is held by the new T, j.
NativeFrom(W, i, j, T) ==
    [W EXCEPT !.objs = Bind(MoveOut(W.objs, i), j, T, W.objs[i].raw,
                            W.objs[i].ctx, W.objs[i].hops + 1)]
from_fd(W, i, j, T) == NativeFrom(W, i, j, T)
from_handle(W, i, j, T) == NativeFrom(W, i, j, T)
from_socket(W, i, j, T) == NativeFrom(W, i, j, T)

\* AsRawFd::as_raw_fd, AsRawHandle::as_raw_handle, AsRawSocket::as_raw_socket:
\* the bare value; nothing changes.
NativeAsRaw(W, i) == [world |-> W, ret |-> W.objs[i].raw]
as_raw_fd(W, i) == NativeAsRaw(W, i)
as_raw_handle(W, i) == NativeAsRaw(W, i)
as_raw_socket(W, i) == NativeAsRaw(W, i)

\* IntoRawFd::into_raw_fd, IntoRawHandle::into_raw_handle,
\* IntoRawSocket::into_raw_socket: the bare value; i is consumed without a
\* close.
NativeIntoRaw(W, i) ==
    [world |-> [W EXCEPT !.objs = MoveOut(W.objs, i)], ret |-> W.objs[i].raw]
into_raw_fd(W, i) == NativeIntoRaw(W, i)
into_raw_handle(W, i) == NativeIntoRaw(W, i)
into_raw_socket(W, i) == NativeIntoRaw(W, i)

\* FromRawFd::from_raw_fd, FromRawHandle::from_raw_handle,
\* FromRawSocket::from_raw_socket: a new T, j, that holds v, in the
\* calling context (context 1); v is not looked at.
NativeFromRaw(W, v, j, T) == [W EXCEPT !.objs = Bind(W.objs, j, T, v, 1, 0)]
from_raw_fd(W, v, j, T) == NativeFromRaw(W, v, j, T)
from_raw_handle(W, v, j, T) == NativeFromRaw(W, v, j, T)
from_raw_socket(W, v, j, T) == NativeFromRaw(W, v, j, T)

\* The end of an owner's lifetime: one close event on the value it holds. The
\* binding is gone.
Drop(W, i) ==
    LET d == W.objs[i].raw IN
    [objs |-> [k \in DOMAIN W.objs \ {i} |-> W.objs[k]],
     open |-> W.open \ {d},
     closes |-> [W.closes EXCEPT ![d] = @ + 1]]

----------------------------------------------------------------------------
(* The portability layer: the blanket impls of src/portability.rs *)

\* impl<T: AsFd | AsHandle | IntoHandle | FromHandle | ...> ...Filelike for T:
\* the types whose native capabilities are of the filelike class.
Filelike(p, T) == T \in Types(p) /\ NativeClass(p, T) = RawFilelike(p)

\* impl<T: AsFd | AsSocket | IntoSocket | FromSocket | ...> ...Socketlike for T
Socketlike(p, T) == T \in Types(p) /\ NativeClass(p, T) = RawSocketlike(p)

\* fn as_filelike(&self) -> BorrowedFilelike<'_>
as_filelike(p, W, i) == IF p = "posix" THEN as_fd(W, i) ELSE as_handle(W, i)

\* a borrow that answers with the other descriptor class on Windows
as_socketlike_other_class(p, W, i) == IF p = "posix" THEN as_fd(W, i) ELSE as_handle(W, i)

\* fn as_socketlike(&self) -> BorrowedSocketlike<'_>
as_socketlike(p, W, i) == IF p = "posix" THEN as_fd(W, i) ELSE as_socket(W, i)

\* a consume that rebuilds the owner from the bare value and lets self drop
into_filelike_dropping(p, W, i, j) ==
    LET D == Drop(W, i) IN
    [D EXCEPT !.objs = Bind(D.objs, j, OwnedOf(RawFilelike(p)), W.objs[i].raw,
                            W.objs[i].ctx, W.objs[i].hops + 1)]

\* a consume that leaves the consumed binding in place beside the new owner
into_filelike_copying(p, W, i, j) ==
    [W EXCEPT !.objs = Bind(W.objs, j, OwnedOf(RawFilelike(p)), W.objs[i].raw,
                            W.objs[i].ctx, W.objs[i].hops + 1)]

\* fn into_filelike(self) -> OwnedFilelike
into_filelike(p, W, i, j) == IF p = "posix" THEN into_fd(W, i, j) ELSE into_handle(W, i, j)

\* a consume that rebuilds the owner from the bare value and lets self drop
into_socketlike_dropping(p, W, i, j) ==
    LET D == Drop(W, i) IN
    [D EXCEPT !.objs = Bind(D.objs, j, OwnedOf(RawSocketlike(p)), W.objs[i].raw,
                            W.objs[i].ctx, W.objs[i].hops + 1)]

\* fn into_socketlike(self) -> OwnedSocketlike
into_socketlike(p, W, i, j) == IF p = "posix" THEN into_fd(W, i, j) ELSE into_socket(W, i, j)

\* a construct that keeps the owned wrapper it was given alive
from_filelike_copying(p, W, i, j, T) ==
    [W EXCEPT !.objs = Bind(W.objs, j, T, W.objs[i].raw, W.objs[i].ctx,
                            W.objs[i].hops + 1)]

\* fn from_filelike(owned: OwnedFilelike) -> Self
from_filelike(p, W, i, j, T) ==
    IF p = "posix" THEN from_fd(W, i, j, T) ELSE from_handle(W, i, j, T)

\* fn from_socketlike(owned: OwnedSocketlike) -> Self
from_socketlike(p, W, i, j, T) ==
    IF p = "posix" THEN from_fd(W, i, j, T) ELSE from_socket(W, i, j, T)

\* a composition that builds Self from the bare value of owned and lets owned
\* drop at the end of the call
from_into_filelike_dropping(p, W, i, k, j, T) ==
    LET D == Drop(W, i) IN
    [D EXCEPT !.objs = Bind(D.objs, j, T, W.objs[i].raw, W.objs[i].ctx,
                            W.objs[i].hops + 2)]

\* fn from_into_filelike<Owned: IntoFilelike>(owned: Owned) -> Self: k is the
\* temporary OwnedFilelike, j the result.
from_into_filelike(p, W, i, k, j, T) == from_filelike(p, into_filelike(p, W, i, k), k, j, T)

\* fn from_into_socketlike<Owned: IntoSocketlike>(owned: Owned) -> Self
from_into_socketlike(p, W, i, k, j, T) ==
    from_socketlike(p, into_socketlike(p, W, i, k), k, j, T)

\* fn as_raw_filelike(&self) -> RawFilelike
as_raw_filelike(p, W, i) == IF p = "posix" THEN as_raw_fd(W, i) ELSE as_raw_handle(W, i)

\* fn as_raw_socketlike(&self) -> RawSocketlike
as_raw_socketlike(p, W, i) == IF p = "posix" THEN as_raw_fd(W, i) ELSE as_raw_socket(W, i)

\* an extraction that reads the bare value and lets self drop
into_raw_filelike_closing(p, W, i) == [world |-> Drop(W, i), ret |-> W.objs[i].raw]

\* fn into_raw_filelike(self) -> RawFilelike
into_raw_filelike(p, W, i) == IF p = "posix" THEN into_raw_fd(W, i) ELSE into_raw_handle(W, i)

\* fn into_raw_socketlike(self) -> RawSocketlike (the Windows build only)
into_raw_socketlike(p, W, i) == into_raw_socket(W, i)

\* unsafe fn from_raw_filelike(raw: RawFilelike) -> Self
from_raw_filelike(p, W, v, j, T) ==
    IF p = "posix" THEN from_raw_fd(W, v, j, T) ELSE from_raw_handle(W, v, j, T)

\* unsafe fn from_raw_socketlike(raw: RawSocketlike) -> Self
from_raw_socketlike(p, W, v, j, T) ==
    IF p = "posix" THEN from_raw_fd(W, v, j, T) ELSE from_raw_socket(W, v, j, T)

\* The argument type of from_filelike: owned: OwnedFilelike.
AcceptsFilelike(p, W, i) == Usable(W, i) /\ W.objs[i].type = OwnedFilelike(p)

\* The argument type of from_socketlike: owned: OwnedSocketlike.
AcceptsSocketlike(p, W, i) == Usable(W, i) /\ W.objs[i].type = OwnedSocketlike(p)

\* The argument type of from_raw_filelike: raw: RawFilelike.
AcceptsRawFilelike(p, v) == v.cls = RawFilelike(p)

\* The argument type of from_raw_socketlike: raw: RawSocketlike.
AcceptsRawSocketlike(p, v) == v.cls = RawSocketlike(p)

----------------------------------------------------------------------------
(* The state machine *)

Op(op, arg, res, ret, hops) ==
    [op |-> op, arg |-> arg, res |-> res, ret |-> ret, hops |-> hops]

Commit(W) == objs' = W.objs /\ open' = W.open /\ closes' = W.closes

\* Object k of the initial state holds descriptor number k + 2.
InitRaw(p, T, k) == [cls |-> NativeClass(p, T), n |-> k + 2]

Init ==
    /\ platform \in Families
    /\ \E ty \in [1..InitObjs -> {"File", "TcpStream"}] :
         objs = [k \in 1..InitObjs |->
                   [type |-> ty[k], raw |-> InitRaw(platform, ty[k], k),
                    state |-> "Open", ctx |-> 1, hops |-> 0]]
    /\ open = {objs[k].raw : k \in DOMAIN objs}
    /\ closes = [d \in AllRaw |-> 0]
    /\ nextId = InitObjs + 1
    /\ lastOp = Op("init", 0, 0, NoRaw, 0)
    /\ rawUsed = FALSE

AsFilelike(i) ==
    /\ "as_filelike" \in DefinedOps(platform)
    /\ Usable(World, i) /\ Filelike(platform, objs[i].type)
    /\ lastOp' = Op("as_filelike", i, 0, as_filelike(platform, World, i).raw, 0)
    /\ UNCHANGED <<platform, objs, open, closes, nextId, rawUsed>>

AsSocketlike(i) ==
    /\ "as_socketlike" \in DefinedOps(platform)
    /\ Usable(World, i) /\ Socketlike(platform, objs[i].type)
    /\ lastOp' = Op("as_socketlike", i, 0, as_socketlike(platform, World, i).raw, 0)
    /\ UNCHANGED <<platform, objs, open, closes, nextId, rawUsed>>

IntoFilelike(i) ==
    /\ "into_filelike" \in DefinedOps(platform)
    /\ Usable(World, i) /\ Filelike(platform, objs[i].type)
    /\ nextId <= MaxObjs
    /\ Commit(into_filelike(platform, World, i, nextId))
    /\ nextId' = nextId + 1
    /\ lastOp' = Op("into_filelike", i, nextId, NoRaw, 0)
    /\ UNCHANGED <<platform, rawUsed>>

IntoSocketlike(i) ==
    /\ "into_socketlike" \in DefinedOps(platform)
    /\ Usable(World, i) /\ Socketlike(platform, objs[i].type)
    /\ nextId <= MaxObjs
    /\ Commit(into_socketlike(platform, World, i, nextId))
    /\ nextId' = nextId + 1
    /\ lastOp' = Op("into_socketlike", i, nextId, NoRaw, 0)
    /\ UNCHANGED <<platform, rawUsed>>

FromFilelike(i, T) ==
    /\ "from_filelike" \in DefinedOps(platform)
    /\ AcceptsFilelike(platform, World, i)
    /\ Filelike(platform, T)
    /\ nextId <= MaxObjs
    /\ Commit(from_filelike(platform, World, i, nextId, T))
    /\ nextId' = nextId + 1
    /\ lastOp' = Op("from_filelike", i, nextId, NoRaw, 0)
    /\ UNCHANGED <<platform, rawUsed>>

FromSocketlike(i, T) ==
    /\ "from_socketlike" \in DefinedOps(platform)
    /\ AcceptsSocketlike(platform, World, i)
    /\ Socketlike(platform, T)
    /\ nextId <= MaxObjs
    /\ Commit(from_socketlike(platform, World, i, nextId, T))
    /\ nextId' = nextId + 1
    /\ lastOp' = Op("from_socketlike", i, nextId, NoRaw, 0)
    /\ UNCHANGED <<platform, rawUsed>>

FromIntoFilelike(i, T) ==
    /\ "from_into_filelike" \in DefinedOps(platform)
    /\ Usable(World, i) /\ Filelike(platform, objs[i].type)
    /\ Filelike(platform, T)
    /\ nextId + 1 <= MaxObjs
    /\ Commit(from_into_filelike(platform, World, i, nextId, nextId + 1, T))
    /\ nextId' = nextId + 2
    /\ lastOp' = Op("from_into_filelike", i, nextId + 1, NoRaw, 0)
    /\ UNCHANGED <<platform, rawUsed>>

FromIntoSocketlike(i, T) ==
    /\ "from_into_socketlike" \in DefinedOps(platform)
    /\ Usable(World, i) /\ Socketlike(platform, objs[i].type)
    /\ Socketlike(platform, T)
    /\ nextId + 1 <= MaxObjs
    /\ Commit(from_into_socketlike(platform, World, i, nextId, nextId + 1, T))
    /\ nextId' = nextId + 2
    /\ lastOp' = Op("from_into_socketlike", i, nextId + 1, NoRaw, 0)
    /\ UNCHANGED <<platform, rawUsed>>

AsRawFilelike(i) ==
    /\ "as_raw_filelike" \in DefinedOps(platform)
    /\ Usable(World, i) /\ Filelike(platform, objs[i].type)
    /\ LET r == as_raw_filelike(platform, World, i) IN
         /\ Commit(r.world)
         /\ lastOp' = Op("as_raw_filelike", i, 0, r.ret, 0)
    /\ UNCHANGED <<platform, nextId, rawUsed>>

AsRawSocketlike(i) ==
    /\ "as_raw_socketlike" \in DefinedOps(platform)
    /\ Usable(World, i) /\ Socketlike(platform, objs[i].type)
    /\ LET r == as_raw_socketlike(platform, World, i) IN
         /\ Commit(r.world)
         /\ lastOp' = Op("as_raw_socketlike", i, 0, r.ret, 0)
    /\ UNCHANGED <<platform, nextId, rawUsed>>

IntoRawFilelike(i) ==
    /\ "into_raw_filelike" \in DefinedOps(platform)
    /\ Usable(World, i) /\ Filelike(platform, objs[i].type)
    /\ LET r == into_raw_filelike(platform, World, i) IN
         /\ Commit(r.world)
         /\ lastOp' = Op("into_raw_filelike", i, 0, r.ret, 0)
    /\ UNCHANGED <<platform, nextId, rawUsed>>

IntoRawSocketlike(i) ==
    /\ "into_raw_socketlike" \in DefinedOps(platform)
    /\ Usable(World, i) /\ Socketlike(platform, objs[i].type)
    /\ LET r == into_raw_socketlike(platform, World, i) IN
         /\ Commit(r.world)
         /\ lastOp' = Op("into_raw_socketlike", i, 0, r.ret, 0)
    /\ UNCHANGED <<platform, nextId, rawUsed>>

FromRawFilelike(v, T) ==
    /\ "from_raw_filelike" \in DefinedOps(platform)
    /\ AcceptsRawFilelike(platform, v)
    /\ Filelike(platform, T)
    /\ nextId <= MaxObjs
    /\ Commit(from_raw_filelike(platform, World, v, nextId, T))
    /\ nextId' = nextId + 1
    /\ lastOp' = Op("from_raw_filelike", 0, nextId, v, 0)
    /\ rawUsed' = TRUE
    /\ UNCHANGED platform

FromRawSocketlike(v, T) ==
    /\ "from_raw_socketlike" \in DefinedOps(platform)
    /\ AcceptsRawSocketlike(platform, v)
    /\ Socketlike(platform, T)
    /\ nextId <= MaxObjs
    /\ Commit(from_raw_socketlike(platform, World, v, nextId, T))
    /\ nextId' = nextId + 1
    /\ lastOp' = Op("from_raw_socketlike", 0, nextId, v, 0)
    /\ rawUsed' = TRUE
    /\ UNCHANGED platform

\* The holder of i lets it go out of scope.
Release(i) ==
    /\ Usable(World, i)
    /\ Commit(Drop(World, i))
    /\ lastOp' = Op("drop", i, 0, objs[i].raw, objs[i].hops)
    /\ UNCHANGED <<platform, nextId, rawUsed>>

\* The holder of i moves it to context c (a channel send, a spawn).
Send(i, c) ==
    /\ Usable(World, i) /\ c # objs[i].ctx
    /\ nextId <= MaxObjs
    /\ objs' = Bind(MoveOut(objs, i), nextId, objs[i].type, objs[i].raw, c, objs[i].hops + 1)
    /\ nextId' = nextId + 1
    /\ lastOp' = Op("send", i, nextId, NoRaw, 0)
    /\ UNCHANGED <<platform, open, closes, rawUsed>>

SafeNext ==
    \/ \E i \in Ids : AsFilelike(i)
    \/ \E i \in Ids : AsSocketlike(i)
    \/ \E i \in Ids : IntoFilelike(i)
    \/ \E i \in Ids : IntoSocketlike(i)
    \/ \E i \in Ids, T \in Types(platform) : FromFilelike(i, T)
    \/ \E i \in Ids, T \in Types(platform) : FromSocketlike(i, T)
    \/ \E i \in Ids, T \in Types(platform) : FromIntoFilelike(i, T)
    \/ \E i \in Ids, T \in Types(platform) : FromIntoSocketlike(i, T)
    \/ \E i \in Ids : Release(i)
    \/ \E i \in Ids, c \in Ctxs : Send(i, c)

\* A run that uses the raw layer creates at most MaxRawObjs bindings.
RawRunBound == nextId' <= MaxRawObjs + 1

\* Every operation of the layer, the raw ones included.
Next ==
    \/ \E i \in Ids : AsFilelike(i) /\ RawRunBound
    \/ \E i \in Ids : AsSocketlike(i) /\ RawRunBound
    \/ \E i \in Ids : IntoFilelike(i) /\ RawRunBound
    \/ \E i \in Ids : IntoSocketlike(i) /\ RawRunBound
    \/ \E i \in Ids, T \in Types(platform) : FromFilelike(i, T) /\ RawRunBound
    \/ \E i \in Ids, T \in Types(platform) : FromSocketlike(i, T) /\ RawRunBound
    \/ \E i \in Ids, T \in Types(platform) : FromIntoFilelike(i, T) /\ RawRunBound
    \/ \E i \in Ids, T \in Types(platform) : FromIntoSocketlike(i, T) /\ RawRunBound
    \/ \E i \in Ids : Release(i) /\ RawRunBound
    \/ \E i \in Ids, c \in Ctxs : Send(i, c) /\ RawRunBound
    \/ \E i \in Ids : AsRawFilelike(i) /\ RawRunBound
    \/ \E i \in Ids : AsRawSocketlike(i) /\ RawRunBound
    \/ \E i \in Ids : IntoRawFilelike(i) /\ RawRunBound
    \/ \E i \in Ids : IntoRawSocketlike(i) /\ RawRunBound
    \/ \E v \in AllRaw, T \in Types(platform) : FromRawFilelike(v, T) /\ RawRunBound
    \/ \E v \in AllRaw, T \in Types(platform) : FromRawSocketlike(v, T) /\ RawRunBound

Spec == Init /\ [][Next]_vars

\* The safe surface only.
SafeSpec == Init /\ [][SafeNext]_vars

----------------------------------------------------------------------------
(* Properties *)

BorrowOps == {"as_filelike", "as_socketlike"}
IntoOps == {"into_filelike", "into_socketlike"}
FromOps == {"from_filelike", "from_socketlike"}
FromIntoOps == {"from_into_filelike", "from_into_socketlike"}
FilelikeConstructOps == {"from_filelike", "from_into_filelike", "from_raw_filelike"}
SocketlikeConstructOps == {"from_socketlike", "from_into_socketlike", "from_raw_socketlike"}

WorldNext == [objs |-> objs', open |-> open', closes |-> closes']

\* C1: the reference as_filelike / as_socketlike returns for x has the raw
\* value of x's native borrow (as_fd on POSIX; as_handle or as_socket, by the
\* type of x, on Windows), which is the value x holds.
C1_BorrowHasNativeRaw ==
    lastOp.op \in BorrowOps =>
        /\ Usable(World, lastOp.arg)
        /\ lastOp.ret =
             NativeBorrow(World, lastOp.arg,
                          NativeClass(platform, objs[lastOp.arg].type)).raw
        /\ lastOp.ret = objs[lastOp.arg].raw

\* A borrow of an object built by a transfer, on Windows, of a socket.
C1_Witness ==
    /\ lastOp.op = "as_socketlike" /\ platform = "windows"
    /\ objs[lastOp.arg].hops >= 1
    /\ lastOp.ret \in open

\* C2: into_filelike / into_socketlike is a pure relabeling: the Owned
\* Resource it returns holds the raw value x held, x is consumed, and the set
\* of open resources and the close events are as before.
C2_IntoIsRelabeling ==
    [][lastOp'.op \in IntoOps =>
          /\ open' = open
          /\ closes' = closes
          /\ Usable(World, lastOp'.arg)
          /\ Usable(WorldNext, lastOp'.res)
          /\ objs'[lastOp'.res].raw = objs[lastOp'.arg].raw
          /\ ~Usable(WorldNext, lastOp'.arg)]_vars

\* An Owned Resource fresh from into_socketlike, its resource open and never
\* closed.
C2_Witness ==
    /\ lastOp.op = "into_socketlike"
    /\ objs[lastOp.res].raw \in open
    /\ closes[objs[lastOp.res].raw] = 0

C3_State ==
    /\ \A d \in AllRaw :
         /\ closes[d] <= 1
         /\ d \in open => closes[d] = 0 /\ Cardinality(Holders(World, d)) = 1
         /\ d \notin open => Holders(World, d) = {}
    /\ Cardinality({d \in AllRaw : d \in open \/ closes[d] = 1}) = InitObjs
C3_Step ==
    /\ lastOp'.op # "drop" => closes' = closes /\ open' = open
    /\ lastOp'.op = "drop" =>
         /\ Holders(World, lastOp'.ret) = {lastOp'.arg}
         /\ closes' = [closes EXCEPT ![lastOp'.ret] = 1]
         /\ open' = open \ {lastOp'.ret}
\* C3: over any chain of transfers and borrows of an originally owned resource
\* there is one close event, issued when the last holder is released: while a
\* holder lives the resource is open, held once and never closed; once
\* released it has been closed once and nobody holds it; only a release
\* issues a close.
C3_OneCloseAtEndOfChain == []C3_State /\ [][C3_Step]_vars

\* The last holder of a chain of three or more transfers is released.
C3_Witness ==
    /\ lastOp.op = "drop" /\ lastOp.hops >= 3
    /\ closes[lastOp.ret] = 1

\* C4: T::from_into_filelike(x) leaves the world that x.into_filelike()
\* followed by T::from_filelike leaves: the same raw value, held by the new
\* object alone, with no close event; likewise for the socketlike pair.
C4_RoundTrip ==
    [][lastOp'.op \in FromIntoOps =>
          LET i == lastOp'.arg
              j == lastOp'.res
              k == j - 1
              T == objs'[j].type
              W1 == IF lastOp'.op = "from_into_filelike"
                    THEN into_filelike(platform, World, i, k)
                    ELSE into_socketlike(platform, World, i, k)
              W2 == IF lastOp'.op = "from_into_filelike"
                    THEN from_filelike(platform, W1, k, j, T)
                    ELSE from_socketlike(platform, W1, k, j, T)
          IN  /\ WorldNext = W2
              /\ objs'[j].raw = objs[i].raw
              /\ Holders(WorldNext, objs[i].raw) = {j}
              /\ closes'[objs[i].raw] = 0
              /\ objs[i].raw \in open']_vars

\* A TcpStream built by from_into_socketlike from an object a transfer built.
C4_Witness ==
    /\ lastOp.op = "from_into_socketlike"
    /\ Usable(World, lastOp.res)
    /\ objs[lastOp.res].hops >= 3
    /\ closes[objs[lastOp.res].raw] = 0

C5_Consumes == IntoOps \cup FromOps \cup FromIntoOps
C5_States == \A i \in DOMAIN objs : objs[i].state \in {"Open", "Moved"}
C5_Step ==
    /\ lastOp'.arg # 0 => Usable(World, lastOp'.arg)
    /\ lastOp'.op \in C5_Consumes =>
         lastOp'.arg \in DOMAIN objs' /\ objs'[lastOp'.arg].state = "Moved"
    /\ \A i \in DOMAIN objs :
         objs[i].state = "Moved" => i \in DOMAIN objs' /\ objs'[i].state = "Moved"
    /\ \A i \in DOMAIN objs' \ DOMAIN objs : i >= nextId
\* C5: a binding is Open or Moved; an operation is applied to an Open binding
\* only, a consume or construct operation leaves the binding it is applied to
\* Moved, and a Moved binding stays Moved.
C5_OpenThenMoved == []C5_States /\ [][C5_Step]_vars

\* A construct has consumed its argument, and an earlier binding is Moved too.
C5_Witness ==
    /\ lastOp.op \in FromOps
    /\ objs[lastOp.arg].state = "Moved"
    /\ Cardinality({i \in DOMAIN objs : objs[i].state = "Moved"}) >= 2

C6_Stale == {i \in DOMAIN objs : objs[i].state = "Open" /\ objs[i].raw \notin open}
\* C6: an Owned Resource that holds a value that is not an open resource
\* exists only in a run that contains a raw construction.
C6_StaleOnlyThroughRaw == C6_Stale # {} => rawUsed

\* A holder of the sentinel and a holder of a closed resource's value.
C6_Witness ==
    /\ \E i \in C6_Stale : objs[i].raw.n = -1
    /\ \E i \in C6_Stale : closes[objs[i].raw] >= 1

C8_ClassesKeptApart ==
    /\ platform = "windows" =>
         /\ lastOp.op \in FilelikeConstructOps => objs[lastOp.res].raw.cls = "handle"
         /\ lastOp.op \in SocketlikeConstructOps => objs[lastOp.res].raw.cls = "socket"
         /\ \A i \in DOMAIN objs :
              ~(AcceptsFilelike(platform, World, i) /\ AcceptsSocketlike(platform, World, i))
         /\ \A v \in AllRaw :
              ~(AcceptsRawFilelike(platform, v) /\ AcceptsRawSocketlike(platform, v))
    /\ platform = "posix" =>
         /\ \A i \in DOMAIN objs :
              AcceptsFilelike(platform, World, i) <=> AcceptsSocketlike(platform, World, i)
         /\ \A v \in AllRaw :
              AcceptsRawFilelike(platform, v) <=> AcceptsRawSocketlike(platform, v)

\* On Windows a filelike construct path is taken while a socket is held: the
\* object it builds holds a handle.
C8_Witness ==
    /\ platform = "windows" /\ lastOp.op \in FilelikeConstructOps
    /\ \E i \in DOMAIN objs : Usable(World, i) /\ objs[i].raw.cls = "socket"
    /\ objs[lastOp.res].raw.cls = "handle"

C9_RawStep ==
    /\ lastOp'.op \in {"as_raw_filelike", "as_raw_socketlike"} =>
         /\ WorldNext = World
         /\ lastOp'.ret = objs[lastOp'.arg].raw
    /\ lastOp'.op \in {"into_raw_filelike", "into_raw_socketlike"} =>
         /\ open' = open /\ closes' = closes
         /\ lastOp'.ret = objs[lastOp'.arg].raw
         /\ Usable(World, lastOp'.arg) /\ ~Usable(WorldNext, lastOp'.arg)
         /\ Holders(WorldNext, lastOp'.ret) = Holders(World, lastOp'.ret) \ {lastOp'.arg}
    /\ lastOp'.op \in {"from_raw_filelike", "from_raw_socketlike"} =>
         /\ open' = open /\ closes' = closes
         /\ Holders(WorldNext, lastOp'.ret) = Holders(World, lastOp'.ret) \cup {lastOp'.res}
C9_Unchecked ==
    nextId <= MaxRawObjs =>
        \A v \in AllRaw :
            /\ AcceptsRawFilelike(platform, v) =>
                 ENABLED FromRawFilelike(v, OwnedFilelike(platform))
            /\ AcceptsRawSocketlike(platform, v) =>
                 ENABLED FromRawSocketlike(v, OwnedSocketlike(platform))
\* C9: as_raw_* returns the value and changes nothing; into_raw_* returns the
\* value and consumes the holder without a close, the resource staying open;
\* from_raw_* makes an owner of whatever value it is given, open or not, held
\* already or not, and closes nothing.
C9_RawNeitherClosesNorValidates == []C9_Unchecked /\ [][C9_RawStep]_vars

\* Two owners of one raw value have both been released: a second close event
\* on it.
C9_Witness == \E d \in AllRaw : closes[d] >= 2 /\ rawUsed /\ lastOp.op = "drop"

\* C10: every one of the twelve operations is defined on the family of the
\* build.
C10_AllOpsDefined == (SafeOps \cup RawOps) \subseteq DefinedOps(platform)

====
